---- MODULE Spec2Model ----
(***************************************************************************)
(* Picelo (src/picelo.py): Elo rating of images by pairwise votes.         *)
(*                                                                         *)
(* RankFileModel  - one image file: path, clean name, score, matches, k;   *)
(*                  the rating is kept in the file name                    *)
(*                  "[{score:04.0f},{matches:.0f}] {clean name}".          *)
(* MainWindow     - the controller: the list of items, the iterator over   *)
(*                  it, the round counter, the two panes.                  *)
(*                                                                         *)
(* File names are sequences of one-character strings.  A score is a float  *)
(* in the program; here it is a fixed-point integer counting 1/SCALE       *)
(* rating points, and 10 ** x is computed in fixed point with ONE = 1.0    *)
(* (TLC's integers are 32 bits wide, every product below stays under 2^31).*)
(* A score read from a name as an int of more than FixedDigits digits is   *)
(* kept as its decimal digits (the field wide), since format() turns it    *)
(* into a float of 53 bits.                                                *)
(***************************************************************************)
EXTENDS Integers, Sequences, FiniteSets, TLC

----------------------------------------------------------------------------
(* Bounds of the model                                                     *)

\* votes (arrow presses) explored in one run of the application
MaxVotes == 3
\* open_directory calls explored in one run of the application
MaxOpens == 2
\* confirmed reset_score calls explored in one run of the application
MaxResets == 1
\* votes explored in one run of the application on the tree of two images
MaxVotesDuo == 4

----------------------------------------------------------------------------
(* Numbers of the program                                                  *)

\* score: float = 1400
DefaultScore == 1400
\* k: float = 32
DefaultK == 32
\* if self._rounds < 3
MaxRounds == 3
\* (R_a - R_b) / 400
EloDivisor == 400
\* "{score:04.0f}": minimum field width
ScoreWidth == 4

\* fixed point: score units per rating point
SCALE == 100
\* fixed point: 1.0 of an expectation or of a power of ten
ONE == 1000000
\* ln(10) * ONE
LN10 == 2302585
\* terms of the series of exp
ExpTerms == 8
\* 10 ** x raises OverflowError above 10 ** 308.25: a gap of 123301 points
OverflowGap == 123301
\* the longest int, in digits, the fixed point holds as a score
FixedDigits == 7
\* the score that stands in the fixed point for an int of more digits
WideScore == 20000000

----------------------------------------------------------------------------
(* Strings                                                                 *)

Digits == <<"0", "1", "2", "3", "4", "5", "6", "7", "8", "9">>

IsDigit(c) == \E i \in 1..10 : Digits[i] = c

DigitVal(c) == (CHOOSE i \in 1..10 : Digits[i] = c) - 1

Abs(n) == IF n < 0 THEN -n ELSE n

RECURSIVE NatToStr(_)
\* decimal digits of a natural number
NatToStr(n) ==
  IF n < 10 THEN <<Digits[n + 1]>>
  ELSE NatToStr(n \div 10) \o <<Digits[(n % 10) + 1]>>

RECURSIVE ZeroPad(_, _)
\* left-pad a digit string with "0" to a width
ZeroPad(s, w) == IF Len(s) >= w THEN s ELSE ZeroPad(<<"0">> \o s, w)

\* does sub occur in s at position i
OccursAt(sub, s, i) ==
  /\ i >= 1
  /\ i + Len(sub) - 1 <= Len(s)
  /\ \A j \in 1..Len(sub) : s[i + j - 1] = sub[j]

\* str.find: the first position of sub in s, 0 when there is none
Find(sub, s) ==
  IF \E i \in 1..Len(s) : OccursAt(sub, s, i)
  THEN CHOOSE i \in 1..Len(s) :
         /\ OccursAt(sub, s, i)
         /\ \A j \in 1..(i - 1) : ~OccursAt(sub, s, j)
  ELSE 0

\* str.rfind of one character: the last position of c in s, 0 when there is none
RFind(c, s) ==
  IF \E i \in 1..Len(s) : s[i] = c
  THEN CHOOSE i \in 1..Len(s) : s[i] = c /\ \A j \in (i + 1)..Len(s) : s[j] # c
  ELSE 0

\* variant of Partition: the string is cut at the last sep, as rpartition does
PartitionLast(s, sep) ==
  LET i == CHOOSE i \in 1..Len(s) :
             /\ OccursAt(sep, s, i)
             /\ \A j \in (i + 1)..Len(s) : ~OccursAt(sep, s, j)
  IN  <<SubSeq(s, 1, i - 1), SubSeq(s, i + Len(sep), Len(s))>>

\* str.partition(sep) of a string that contains sep: <<before, after>>
Partition(s, sep) ==
  LET i == Find(sep, s)
  IN  <<SubSeq(s, 1, i - 1), SubSeq(s, i + Len(sep), Len(s))>>

RECURSIVE Split(_, _)
\* str.split(c) on one character: the sequence of the parts
Split(s, c) ==
  LET i == Find(<<c>>, s)
  IN  IF i = 0 THEN <<s>>
      ELSE <<SubSeq(s, 1, i - 1)>> \o Split(SubSeq(s, i + 1, Len(s)), c)

RECURSIVE Strip(_)
\* str.strip() as int() applies it: spaces at both ends
Strip(s) ==
  IF s = <<>> THEN s
  ELSE IF Head(s) = " " THEN Strip(Tail(s))
  ELSE IF s[Len(s)] = " " THEN Strip(SubSeq(s, 1, Len(s) - 1))
  ELSE s

RECURSIVE DigitsVal(_)
DigitsVal(s) ==
  IF s = <<>> THEN 0
  ELSE 10 * DigitsVal(SubSeq(s, 1, Len(s) - 1)) + DigitVal(s[Len(s)])

\* the digits of a decimal string as numbers, and back
Nums(d) == [i \in 1..Len(d) |-> DigitVal(d[i])]

Chars(n) == [i \in 1..Len(n) |-> Digits[n[i] + 1]]

RECURSIVE TrimZeros(_)
\* a number in decimal digits without its leading zeros
TrimZeros(n) == IF Len(n) > 1 /\ Head(n) = 0 THEN TrimZeros(Tail(n)) ELSE n

\* int(r): [ok, val, wide]; ok is FALSE where int() raises ValueError.  An int
\* of more than FixedDigits digits comes as its digits in wide, val standing for it.
\* (The names of the model hold no "_", which int() also accepts between digits,
\* and no negative int of that many digits.)
ParseInt(r) ==
  LET t == Strip(r)
      signed == t # <<>> /\ Head(t) \in {"-", "+"}
      d == IF signed THEN Tail(t) ELSE t
  IN  IF d # <<>> /\ \A i \in 1..Len(d) : IsDigit(d[i])
      THEN LET n == TrimZeros(Nums(d))
           IN  IF Len(n) > FixedDigits
               THEN [ok |-> TRUE, val |-> WideScore, wide |-> n]
               ELSE [ok |-> TRUE, wide |-> <<>>,
                     val |-> IF signed /\ Head(t) = "-" THEN -DigitsVal(d)
                             ELSE DigitsVal(d)]
      ELSE [ok |-> FALSE, val |-> 0, wide |-> <<>>]

\* pathlib: PurePath.stem, the name without its last suffix
Stem(name) ==
  LET i == RFind(".", name)
  IN  IF 1 < i /\ i < Len(name) THEN SubSeq(name, 1, i - 1) ELSE name

\* pathlib: PurePath.suffix, the last suffix of the name
Suffix(name) ==
  LET i == RFind(".", name)
  IN  IF 1 < i /\ i < Len(name) THEN SubSeq(name, i, Len(name)) ELSE <<>>

----------------------------------------------------------------------------
(* Fixed-point arithmetic standing for the floats of wins_over             *)

\* a * b / ONE for 0 <= a, b <= ONE
Mul(a, b) == (a * (b \div 1000)) \div 1000 + (a * (b % 1000)) \div ONE

\* a * b / c for a < c and b * (c - 1) < 2^31
MulDiv(a, b, c) == a * (b \div c) + (a * (b % c)) \div c

RECURSIVE ExpSeries(_, _)
\* 1 - z/k (1 - z/(k+1) (1 - ...)): the series of exp(-z), 0 <= z <= ONE, from term k
ExpSeries(z, k) ==
  IF k > ExpTerms THEN ONE ELSE ONE - Mul(z, ExpSeries(z, k + 1)) \div k

RECURSIVE TenTo(_)
TenTo(n) == IF n = 0 THEN 1 ELSE 10 * TenTo(n - 1)

\* 10 ** (-a / (400 * SCALE)) * ONE for a >= 0, a in score units
Pow10Neg(a) ==
  LET unit == EloDivisor * SCALE
      q == a \div unit
      r == a % unit
      z8 == MulDiv(r, LN10 \div 8, unit)
      e8 == ExpSeries(z8, 1)
      e4 == Mul(e8, e8)
      e2 == Mul(e4, e4)
      e1 == Mul(e2, e2)
  IN  IF q > 6 THEN 0 ELSE (e1 + TenTo(q) \div 2) \div TenTo(q)

\* 1 / (1 + 10 ** (-a / (400 * SCALE))) * ONE for a >= 0: in ONE/2 .. ONE
InvOnePlus(a) ==
  LET d == ONE + Pow10Neg(a)
      n1 == ONE * 1000
  IN  (n1 \div d) * 1000 + ((n1 % d) * 1000 + d \div 2) \div d

\* variant of Expectation: 1 // (1 + 10 ** (diff / 400)), the floor division
ExpectationFloor(diff) == 0

\* 1 / (1 + 10 ** (diff / 400)) * ONE, diff in score units
Expectation(diff) ==
  IF diff >= 0 THEN ONE - InvOnePlus(diff) ELSE InvOnePlus(-diff)

\* k * v, v a fixed-point fraction of ONE: the result in score units
KTimes(k, v) ==
  LET a == k * SCALE
      hi == a * (v \div 1000)
      lo == a * (v % 1000)
      u == hi + (lo + 500) \div 1000
  IN  (u + 500) \div 1000

\* 10 ** (diff / 400) raises OverflowError (a wide score is that far from the
\* scores of the fixed point)
PowOverflows(diff) == diff > OverflowGap * SCALE

----------------------------------------------------------------------------
(* float(n) of an int n given in decimal digits: the nearest number of 53  *)
(* significant bits, ties to even                                          *)

RECURSIVE HalveFrom(_, _)
\* n \div 2 digit by digit from the left, c the remainder carried in
HalveFrom(n, c) ==
  IF n = <<>> THEN <<>>
  ELSE <<(10 * c + Head(n)) \div 2>> \o HalveFrom(Tail(n), (10 * c + Head(n)) % 2)

Halve(n) == TrimZeros(HalveFrom(n, 0))

RECURSIVE DoubleFrom(_, _)
\* 2 * n + c digit by digit from the right
DoubleFrom(n, c) ==
  IF n = <<>> THEN (IF c = 0 THEN <<>> ELSE <<c>>)
  ELSE LET v == 2 * n[Len(n)] + c
       IN  DoubleFrom(SubSeq(n, 1, Len(n) - 1), v \div 10) \o <<v % 10>>

Double(n) == DoubleFrom(n, 0)

RECURSIVE Inc(_)
\* n + 1
Inc(n) ==
  IF n = <<>> THEN <<1>>
  ELSE IF n[Len(n)] < 9 THEN [n EXCEPT ![Len(n)] = @ + 1]
  ELSE Inc(SubSeq(n, 1, Len(n) - 1)) \o <<0>>

Odd(n) == n[Len(n)] % 2 = 1

\* a < b
Less(a, b) ==
  \/ Len(a) < Len(b)
  \/ /\ Len(a) = Len(b)
     /\ \E i \in 1..Len(a) : a[i] < b[i] /\ \A j \in 1..(i - 1) : a[j] = b[j]

\* 2 ** 53: a float holds every int up to it
TwoTo53 == <<9, 0, 0, 7, 1, 9, 9, 2, 5, 4, 7, 4, 0, 9, 9, 2>>

RECURSIVE Grow(_, _)
\* q * 2 ** e
Grow(q, e) == IF e = 0 THEN q ELSE Grow(Double(q), e - 1)

RECURSIVE Round53(_, _, _, _)
\* n = q * 2 ** e + rest: last is the top bit of rest, sticky tells of a bit below it
Round53(q, last, sticky, e) ==
  IF Less(q, TwoTo53)
  THEN Grow(IF last = 1 /\ (sticky \/ Odd(q)) THEN Inc(q) ELSE q, e)
  ELSE Round53(Halve(q), q[Len(q)] % 2, sticky \/ last = 1, e + 1)

\* the int that float(n) is
Float53(n) == Round53(n, 0, FALSE, 0)

----------------------------------------------------------------------------
(* The file system                                                         *)

\* no object (Python's None) in a pane
None == 0

Path(dir, name) == [dir |-> dir, name |-> name]

\* pathlib.Path.rename on POSIX: [ok, disk].  The source must exist
\* (FileNotFoundError otherwise); an existing target file is replaced silently.
Rename(dk, src, dst) ==
  IF src \notin DOMAIN dk THEN [ok |-> FALSE, disk |-> dk]
  ELSE [ok |-> TRUE,
        disk |-> [p \in ((DOMAIN dk) \ {src}) \cup {dst} |->
                    IF p = dst THEN dk[src] ELSE dk[p]]]

----------------------------------------------------------------------------
(* RankFileModel                                                           *)

\* the name has a rating prefix to parse
HasPrefix(name) ==
  /\ Stem(name) # <<>>
  /\ Head(Stem(name)) = "["
  /\ Find(<<"]", " ">>, name) # 0

\* RankFileModel(fp, score, k): [ok, item]; ok is FALSE where __init__ raises
\* ValueError (the bracketed part is not two integers)
RankFileModel(fp, score, k) ==
  LET plain == [fp |-> fp, fp_clean_name |-> fp.name, k |-> k,
                matches |-> 0, score |-> score * SCALE, wide |-> <<>>]
  IN  IF HasPrefix(fp.name)
      THEN LET parts == Partition(Tail(fp.name), <<"]", " ">>)
               rs == Split(parts[1], ",")
               ok == Len(rs) = 2 /\ ParseInt(rs[1]).ok /\ ParseInt(rs[2]).ok
           IN  IF ok
               THEN [ok |-> TRUE,
                     item |-> [fp |-> fp, fp_clean_name |-> parts[2], k |-> k,
                               matches |-> ParseInt(rs[2]).val,
                               score |-> ParseInt(rs[1]).val * SCALE,
                               wide |-> ParseInt(rs[1]).wide]]
               ELSE [ok |-> FALSE, item |-> plain]
      ELSE [ok |-> TRUE, item |-> plain]

\* format(x, ".0f") of a score: the nearest integer, ties to even
RoundHalfEven(s) ==
  LET n == s \div SCALE
      r == s % SCALE
  IN  IF 2 * r > SCALE \/ (2 * r = SCALE /\ n % 2 = 1) THEN n + 1 ELSE n

\* f"{score:04.0f}" of a float: sign, then zeros up to the width of 4
FormatFloat(s) ==
  LET mag == RoundHalfEven(Abs(s))
  IN  IF s < 0 THEN <<"-">> \o ZeroPad(NatToStr(mag), ScoreWidth - 1)
      ELSE ZeroPad(NatToStr(mag), ScoreWidth)

\* f"{self.score:04.0f}": an int is turned into a float first
FormatScore(it) ==
  IF it.wide # <<>> THEN ZeroPad(Chars(Float53(it.wide)), ScoreWidth)
  ELSE FormatFloat(it.score)

\* f"{matches:.0f}"
FormatMatches(m) == IF m < 0 THEN <<"-">> \o NatToStr(-m) ELSE NatToStr(m)

\* RankFileModel.filename: the name with the Elo prefix
filename(it) ==
  <<"[">> \o FormatScore(it) \o <<",">> \o FormatMatches(it.matches)
    \o <<"]", " ">> \o it.fp_clean_name

\* the result of a method that renames: the items, the disk, the exception
Result(its, dk, e) == [items |-> its, disk |-> dk, err |-> e]

\* self._fp = self._fp.rename(self._fp.parent / name)
RenameItem(its, dk, i, name) ==
  LET dst == Path(its[i].fp.dir, name)
      r == Rename(dk, its[i].fp, dst)
  IN  IF r.ok THEN Result([its EXCEPT ![i].fp = dst], r.disk, "none")
      ELSE Result(its, dk, "FileNotFoundError")

\* RankFileModel.update_name
update_name(its, dk, i) == RenameItem(its, dk, i, filename(its[i]))

\* RankFileModel.reset_name
reset_name(its, dk, i) == RenameItem(its, dk, i, its[i].fp_clean_name)

\* variant of NewScores: the loser's term is added, not subtracted
NewScoresAdded(its, a, b) ==
  LET R_a == its[a].score
      R_b == its[b].score
      E_a == Expectation(R_a - R_b)
      E_b == Expectation(R_b - R_a)
      s1 == [its EXCEPT ![a].score = R_a + KTimes(its[a].k, ONE - E_a)]
  IN  [s1 EXCEPT ![b].score = R_b + KTimes(its[a].k, E_b)]

\* the new scores of wins_over, before the renames: a wins over b
NewScores(its, a, b) ==
  LET R_a == its[a].score
      R_b == its[b].score
      E_a == Expectation(R_a - R_b)
      E_b == Expectation(R_b - R_a)
      s1 == [its EXCEPT ![a].score = R_a + KTimes(its[a].k, ONE - E_a)]
  IN  [s1 EXCEPT ![b].score = R_b - KTimes(its[a].k, E_b)]

\* variant of CountMatch: only the winner's match is counted
CountMatchWinner(its, a, b) == [its EXCEPT ![a].matches = @ + 1]

\* self.matches += 1; looser.matches += 1
CountMatch(its, a, b) ==
  LET m1 == [its EXCEPT ![a].matches = @ + 1]
  IN  [m1 EXCEPT ![b].matches = @ + 1]

\* variant of wins_over: the files are renamed before the matches are counted
wins_over_named_first(its, dk, a, b) ==
  IF PowOverflows(its[a].score - its[b].score)
       \/ PowOverflows(its[b].score - its[a].score)
  THEN Result(its, dk, "OverflowError")
  ELSE LET u == update_name(NewScores(its, a, b), dk, a)
       IN  IF u.err # "none" THEN u
           ELSE LET v == update_name(u.items, u.disk, b)
                IN  Result(CountMatch(v.items, a, b), v.disk, v.err)

\* RankFileModel.wins_over: a wins over b
wins_over(its, dk, a, b) ==
  IF PowOverflows(its[a].score - its[b].score)
       \/ PowOverflows(its[b].score - its[a].score)
  THEN Result(its, dk, "OverflowError")
  ELSE LET scored == CountMatch(NewScores(its, a, b), a, b)
           u == update_name(scored, dk, a)
       IN  IF u.err # "none" THEN u ELSE update_name(u.items, u.disk, b)

----------------------------------------------------------------------------
(* The directories and files the model runs on                             *)

\* Image.registered_extensions().keys() - {".pdf"}: the one the files here carry
Extensions == {<<".", "j", "p", "g">>}

\* glob("**/*") under pic_dir: the directories of its tree
Tree(dir) ==
  IF dir = "top" THEN {"top", "top/sub"}
  ELSE IF dir = "top/sub" THEN {"top/sub"}
  ELSE {dir}

Dirs == {"top", "top/sub", "empty"}

NameA == <<"a", ".", "j", "p", "g">>
NameB == <<"b", ".", "j", "p", "g">>
NameC == <<"c", ".", "j", "p", "g">>
NameD == <<"d", ".", "j", "p", "g">>
NameRatedA == <<"[", "1", "4", "1", "6", ",", "1", "]", " ", "a", ".", "j", "p", "g">>
NameText == <<"n", ".", "t", "x", "t">>
NameDraft == <<"[", "d", "r", "a", "f", "t", "]", " ", "p", ".", "j", "p", "g">>

\* the directory trees a run may start from: file path -> file (its content)
DiskChoices ==
  { (Path("top", NameA) :> 1) @@ (Path("top", NameB) :> 2)
      @@ (Path("top/sub", NameC) :> 3) @@ (Path("top", NameText) :> 4),
    (Path("top", NameA) :> 1) @@ (Path("top", NameRatedA) :> 2)
      @@ (Path("top", NameB) :> 3),
    (Path("top/sub", NameA) :> 1) @@ (Path("top/sub", NameB) :> 2)
      @@ (Path("top", NameDraft) :> 3) }

\* a tree of four images, two of them in the subdirectory
WideChoices ==
  { (Path("top", NameA) :> 1) @@ (Path("top", NameB) :> 2)
      @@ (Path("top/sub", NameC) :> 3) @@ (Path("top/sub", NameD) :> 4) }

----------------------------------------------------------------------------
(* State                                                                   *)

VARIABLES
  disk,          \* the file system: path -> file
  items,         \* the RankFileModel objects alive: id -> fields
  fp_list,       \* MainWindow._fp_list: ids
  fp_list_iter,  \* MainWindow._fp_list_iter: the ids it has yet to yield
  rounds,        \* MainWindow._rounds
  img_left,      \* MainWindow._img_left.model: an id or None
  img_right,     \* MainWindow._img_right.model: an id or None
  menu_reset,    \* the menu entry "Reset score" is enabled
  err,           \* the exception the last handler ended with, "none" if it returned
  passPairs,     \* history: the pairs the panes showed since the last shuffle
  session,       \* history: how the last open_directory found the scheduler,
                 \*          the votes and the compared items since
  votes,         \* history: arrow presses so far
  opens,         \* history: open_directory calls so far
  resets         \* history: confirmed reset_score calls so far

vars == <<disk, items, fp_list, fp_list_iter, rounds, img_left, img_right,
          menu_reset, err, passPairs, session, votes, opens, resets>>

Range(f) == {f[i] : i \in DOMAIN f}

\* the MainWindow fields load_next works on
Window(l, it, r, il, ir, e, pp) ==
  [fp_list |-> l, fp_list_iter |-> it, rounds |-> r, img_left |-> il,
   img_right |-> ir, err |-> e, passPairs |-> pp]

\* random.shuffle(self._fp_list) with the outcome perm
Shuffle(list, perm) == [i \in 1..Len(list) |-> list[perm[i]]]

\* the outcomes random.shuffle can have on a list
Shuffles(list) == Permutations(1..Len(list))

\* the identity: the outcome that leaves the list as it is
Identity(list) == [i \in 1..Len(list) |-> i]

\* the files Image.open cannot identify as an image, whatever their suffix
Undecodable == {5}

\* Image.open(rf.get_fp()) in ImageView.set_image: what it raises
OpenError(its, dk, i) ==
  IF its[i].fp \notin DOMAIN dk THEN "FileNotFoundError"
  ELSE IF dk[its[i].fp] \in Undecodable THEN "UnidentifiedImageError"
  ELSE "none"

\* ImageView.set_image(rf) returns
CanOpen(its, dk, i) == OpenError(its, dk, i) = "none"

RECURSIVE LoadNext(_, _, _, _)
\* MainWindow.load_next, a shuffle (if it comes to one) having the outcome perm
LoadNext(w, its, dk, perm) ==
  LET stop(v) ==
        \* except StopIteration
        IF v.rounds < MaxRounds
        THEN LET l == Shuffle(v.fp_list, perm)
             IN  LoadNext([v EXCEPT !.rounds = @ + 1, !.fp_list = l,
                                    !.fp_list_iter = l, !.passPairs = <<>>],
                          its, dk, perm)
        ELSE [v EXCEPT !.img_left = None, !.img_right = None]
  IN  IF w.fp_list_iter = <<>> THEN stop(w)
      ELSE LET x == Head(w.fp_list_iter)
               w1 == [w EXCEPT !.img_left = x, !.fp_list_iter = Tail(@)]
           IN  IF ~CanOpen(its, dk, x) THEN [w1 EXCEPT !.err = OpenError(its, dk, x)]
               ELSE IF w1.fp_list_iter = <<>> THEN stop(w1)
               ELSE LET y == Head(w1.fp_list_iter)
                        w2 == [w1 EXCEPT !.img_right = y, !.fp_list_iter = Tail(@)]
                    IN  IF ~CanOpen(its, dk, y)
                        THEN [w2 EXCEPT !.err = OpenError(its, dk, y)]
                        ELSE w2

\* load_next comes to its shuffle: next() raises StopIteration, and no
\* Image.open fails before it, while a round is left
WillShuffle(w, its, dk) ==
  /\ w.rounds < MaxRounds
  /\ \/ w.fp_list_iter = <<>>
     \/ Len(w.fp_list_iter) = 1 /\ CanOpen(its, dk, Head(w.fp_list_iter))

\* the shuffle outcomes that tell the runs of load_next apart
Outcomes(w, its, dk) ==
  IF WillShuffle(w, its, dk) THEN Shuffles(w.fp_list) ELSE {Identity(w.fp_list)}

\* load_next, and the history of the pairs the panes show
load_next(w, its, dk, perm) ==
  LET r == LoadNext(w, its, dk, perm)
  IN  IF r.img_left # None /\ r.img_right # None
      THEN [r EXCEPT !.passPairs = Append(@, <<r.img_left, r.img_right>>)]
      ELSE r

\* the objects something still refers to
Live(w) ==
  Range(w.fp_list) \cup Range(w.fp_list_iter) \cup ({w.img_left, w.img_right} \ {None})
    \cup UNION {{pr[1], pr[2]} : pr \in Range(w.passPairs)}

Restrict(f, S) == [x \in (DOMAIN f) \cap S |-> f[x]]

\* the state a handler leaves: the window, the objects, the disk
Leave(w, its, dk) ==
  /\ fp_list' = w.fp_list
  /\ fp_list_iter' = w.fp_list_iter
  /\ rounds' = w.rounds
  /\ img_left' = w.img_left
  /\ img_right' = w.img_right
  /\ err' = w.err
  /\ passPairs' = w.passPairs
  /\ items' = Restrict(its, Live(w))
  /\ disk' = dk

ThisWindow ==
  Window(fp_list, fp_list_iter, rounds, img_left, img_right, "none", passPairs)

\* the scheduler shows nothing and has nothing left to yield: Idle or Done
Quiet == fp_list_iter = <<>> /\ img_left = None /\ img_right = None

----------------------------------------------------------------------------
(* MainWindow: the handlers                                                *)

RECURSIVE SeqOfPaths(_, _)
\* the paths of a set, in the order of the files they name
SeqOfPaths(S, dk) ==
  IF S = {} THEN <<>>
  ELSE LET p == CHOOSE p \in S : \A q \in S : dk[p] <= dk[q]
       IN  <<p>> \o SeqOfPaths(S \ {p}, dk)

Max(S) == IF S = {} THEN 0 ELSE CHOOSE m \in S : \A n \in S : n <= m

\* for p in pathlib.Path(pic_dir).glob("**/*"): if p.suffix in pil_file_extensions
Scan(dir, dk) ==
  {p \in DOMAIN dk : p.dir \in Tree(dir) /\ Suffix(p.name) \in Extensions}

\* the objects open_directory appends for the paths, numbered after base
Scanned(paths, base) ==
  [i \in (base + 1)..(base + Len(paths)) |->
     RankFileModel(paths[i - base], DefaultScore, DefaultK).item]

\* MainWindow.open_directory, the dialog answered with dir.  A name that makes
\* RankFileModel raise ends the scan where glob meets it: after any of the others.
open_directory(dir) ==
  /\ opens < MaxOpens
  /\ \E found \in {Scan(dir, disk)} :
     \E bad \in {{p \in found : ~RankFileModel(p, DefaultScore, DefaultK).ok}} :
     \E before \in (IF bad = {} THEN {found} ELSE SUBSET (found \ bad)) :
     \E paths \in {SeqOfPaths(before, disk)} :
     \E base \in {Max(DOMAIN items)} :
     \E its \in {items @@ Scanned(paths, base)} :
     \E w \in {Window([i \in 1..Len(paths) |-> base + i], fp_list_iter, 0,
                      img_left, img_right, "none", passPairs)} :
       /\ session' = [quiet |-> Quiet, n |-> Len(paths), votes |-> 0,
                      loaded |-> bad = {}, compared |-> {}]
       /\ IF bad # {}
          THEN /\ Leave([w EXCEPT !.err = "ValueError"], its, disk)
               /\ UNCHANGED menu_reset
          ELSE \E perm \in Outcomes(w, its, disk) :
               \E r \in {load_next(w, its, disk, perm)} :
                 /\ Leave(r, its, disk)
                 /\ menu_reset' = (menu_reset \/ r.err = "none")
  /\ opens' = opens + 1
  /\ UNCHANGED <<votes, resets>>

RECURSIVE ResetAll(_, _, _)
\* for p in self._fp_list: p.reset_name()
ResetAll(list, its, dk) ==
  IF list = <<>> THEN Result(its, dk, "none")
  ELSE LET r == reset_name(its, dk, Head(list))
       IN  IF r.err # "none" THEN r ELSE ResetAll(Tail(list), r.items, r.disk)

\* MainWindow.reset_score, the question answered with yes
reset_score ==
  /\ menu_reset
  /\ resets < MaxResets
  /\ \E r \in {ResetAll(fp_list, items, disk)} :
       Leave([ThisWindow EXCEPT !.err = r.err], r.items, r.disk)
  /\ resets' = resets + 1
  /\ UNCHANGED <<menu_reset, session, votes, opens>>

\* variant of Voted: the key alone decides, whether the pane holds an item or not
VotedAlways(key) ==
  IF key = "Left" THEN <<img_left, img_right>> ELSE <<img_right, img_left>>

\* the items arrow_press calls wins_over on: <<winner, loser>>, <<>> for no call
Voted(key) ==
  IF key = "Left" /\ img_left # None THEN <<img_left, img_right>>
  ELSE IF key = "Right" /\ img_right # None THEN <<img_right, img_left>>
  ELSE <<>>

\* the items a call of wins_over is made on: none without a call
Called(v) == IF v # <<>> /\ v[2] # None THEN {v[1], v[2]} ELSE {}

\* MainWindow.arrow_press, event.keysym being key
Press(key) ==
  /\ LET v == Voted(key)
     IN  IF v # <<>> /\ v[2] = None
         THEN Leave([ThisWindow EXCEPT !.err = "AttributeError"], items, disk)
         ELSE \E r \in {IF v = <<>> THEN Result(items, disk, "none")
                        ELSE wins_over(items, disk, v[1], v[2])} :
                IF r.err # "none"
                THEN Leave([ThisWindow EXCEPT !.err = r.err], r.items, r.disk)
                ELSE \E perm \in Outcomes(ThisWindow, r.items, r.disk) :
                     \E n \in {load_next(ThisWindow, r.items, r.disk, perm)} :
                       Leave(n, r.items, r.disk)
  /\ votes' = votes + 1
  /\ session' = [session EXCEPT !.votes = @ + 1,
                                !.compared = @ \cup Called(Voted(key))]
  /\ UNCHANGED <<menu_reset, opens, resets>>

\* an arrow key is pressed, MaxVotes times in a run
arrow_press(key) == votes < MaxVotes /\ Press(key)

\* MainWindow.__init__, on one of the directory trees
Started(trees) ==
  /\ disk \in trees
  /\ items = <<>>
  /\ fp_list = <<>>
  /\ fp_list_iter = <<>>
  /\ rounds = 0
  /\ img_left = None
  /\ img_right = None
  /\ menu_reset = FALSE
  /\ err = "none"
  /\ passPairs = <<>>
  /\ session = [quiet |-> TRUE, n |-> 0, votes |-> 0, loaded |-> FALSE,
                    compared |-> {}]
  /\ votes = 0
  /\ opens = 0
  /\ resets = 0

Init == Started(DiskChoices)

InitWide == Started(WideChoices)

Next ==
  \/ \E dir \in Dirs : open_directory(dir)
  \/ reset_score
  \/ \E key \in {"Left", "Right"} : arrow_press(key)

\* the application on the small directory trees
Spec == Init /\ [][Next]_vars

\* the application on the tree of four images
SpecWide == InitWide /\ [][Next]_vars

\* two images in the subdirectory and a text file: every name differs
DuoChoices ==
  { (Path("top/sub", NameA) :> 1) @@ (Path("top/sub", NameB) :> 2)
      @@ (Path("top", NameText) :> 3) }

InitDuo == Started(DuoChoices)

\* an arrow key is pressed on the tree of two images, MaxVotesDuo times in a run:
\* one more than the votes of all the passes over two images
arrow_press_duo(key) == votes < MaxVotesDuo /\ Press(key)

NextDuo ==
  \/ \E dir \in Dirs : open_directory(dir)
  \/ reset_score
  \/ \E key \in {"Left", "Right"} : arrow_press_duo(key)

\* the application on the tree of two images
SpecDuo == InitDuo /\ [][NextDuo]_vars

\* two images and, in the subdirectory, a file named as an image that is none
BrokenChoices ==
  { (Path("top", NameA) :> 1) @@ (Path("top", NameB) :> 2)
      @@ (Path("top/sub", NameC) :> 5) }

InitBroken == Started(BrokenChoices)

\* the application on a tree with a file Image.open rejects
SpecBroken == InitBroken /\ [][Next]_vars

----------------------------------------------------------------------------
(* RankFileModel on its own: items built from file names, wins_over,       *)
(* reset_name, and a second item built from the name filename() gives      *)

NameSunset == <<"s", "u", "n", "s", "e", "t", ".", "j", "p", "g">>
NameRated1400 == <<"[", "1", "4", "0", "0", ",", "0", "]", " ", "b", ".", "j", "p", "g">>
\* rated, and of the clean name of NameSunset
NameRated1430 ==
  <<"[", "1", "4", "3", "0", ",", "0", "]", " ", "s", "u", "n", "s", "e", "t", ".", "j", "p", "g">>
NameRated1800 == <<"[", "1", "8", "0", "0", ",", "2", "]", " ", "c", ".", "j", "p", "g">>
NameRated7800 == <<"[", "7", "8", "0", "0", ",", "1", "2", "]", " ", "d", ".", "j", "p", "g">>
NameRatedHuge ==
  <<"[", "1", "2", "5", "0", "0", "0", ",", "1", "]", " ", "e", ".", "j", "p", "g">>
\* a rated name whose clean name holds "[", "," and "] "
NameRatedOdd ==
  <<"[", "0", "9", "0", "0", ",", "3", "]", " ", "[", "x", ",", "y", "]", " ", "f", ".", "j", "p", "g">>
\* an unrated name that holds "] " and "[" but starts with no "["
NameOdd == <<"g", "]", " ", "[", "h", ".", "j", "p", "g">>
\* names that start with "[" and hold "] " around one integer and around three
NameOneInt == <<"[", "1", "4", "0", "0", "]", " ", "a", ".", "j", "p", "g">>
NameThreeInts == <<"[", "1", ",", "2", ",", "3", "]", " ", "a", ".", "j", "p", "g">>
\* rated 2 ** 53 + 1, which no float is, and 2 ** 53 + 2, which a float is
NameRatedWide ==
  <<"[", "9", "0", "0", "7", "1", "9", "9", "2", "5", "4", "7", "4", "0", "9", "9", "3",
    ",", "0", "]", " ", "w", ".", "j", "p", "g">>
NameRatedEven ==
  <<"[", "9", "0", "0", "7", "1", "9", "9", "2", "5", "4", "7", "4", "0", "9", "9", "4",
    ",", "0", "]", " ", "v", ".", "j", "p", "g">>

\* the files RankFileModel is built on: the scores of two of them are either
\* within 1000 points or more than 5800 points apart, where the fixed point
\* and the floats agree on which scores a match changes
ItemNames ==
  {NameSunset, NameB, NameRated1400, NameRated1430, NameRated1800, NameRated7800,
   NameRatedHuge, NameRatedOdd, NameOdd, NameDraft, NameOneInt, NameThreeInts,
   NameRatedWide, NameRatedEven}

\* the k a RankFileModel is built with
KChoices == {16, DefaultK}

\* two items built from two files of one directory; a name that makes
\* RankFileModel raise leaves no item
ItemInit ==
  \E n1 \in ItemNames, n2 \in ItemNames, k1 \in KChoices, k2 \in KChoices :
    LET b1 == RankFileModel(Path("top", n1), DefaultScore, k1)
        b2 == RankFileModel(Path("top", n2), DefaultScore, k2)
    IN  /\ n1 # n2
        \* one int of more than FixedDigits digits at most
        /\ ~(b1.item.wide # <<>> /\ b2.item.wide # <<>>)
        /\ disk = (Path("top", n1) :> 1) @@ (Path("top", n2) :> 2)
        /\ items = [i \in {j \in {1, 2} : IF j = 1 THEN b1.ok ELSE b2.ok} |->
                      IF i = 1 THEN b1.item ELSE b2.item]
        /\ err = IF b1.ok /\ b2.ok THEN "none" ELSE "ValueError"
        /\ fp_list = <<>>
        /\ fp_list_iter = <<>>
        /\ rounds = 0
        /\ img_left = None
        /\ img_right = None
        /\ menu_reset = FALSE
        /\ passPairs = <<>>
        /\ session = [quiet |-> TRUE, n |-> 0, votes |-> 0, loaded |-> FALSE,
                    compared |-> {}]
        /\ votes = 0
        /\ opens = 0
        /\ resets = 0

ItemFrame == UNCHANGED <<fp_list, fp_list_iter, rounds, img_left, img_right,
                         menu_reset, session>>

\* calls made on the items so far
ItemSteps == votes + opens + resets

\* the two items built at the start
Players == {1, 2} \cap DOMAIN items

\* the item built from the name filename() gave
Rebuilt == 3

\* a.wins_over(b); passPairs keeps <<a, b>> of the last call
ItemWins(a, b) ==
  /\ ItemSteps < MaxVotes
  /\ a \in Players /\ b \in Players /\ a # b
  /\ \E r \in {wins_over(items, disk, a, b)} :
       /\ items' = r.items
       /\ disk' = r.disk
       /\ err' = r.err
  /\ passPairs' = <<<<a, b>>>>
  /\ votes' = votes + 1
  /\ UNCHANGED <<opens, resets>>
  /\ ItemFrame

\* RankFileModel(fp.parent / a.filename()): the item the name of a decodes to
ItemRebuild(a) ==
  /\ ItemSteps < MaxVotes
  /\ a \in Players
  /\ \E b \in {RankFileModel(Path(items[a].fp.dir, filename(items[a])),
                            DefaultScore, items[a].k)} :
       /\ items' = IF b.ok THEN [i \in (DOMAIN items) \cup {Rebuilt} |->
                                   IF i = Rebuilt THEN b.item ELSE items[i]]
                   ELSE items
       /\ err' = IF b.ok THEN "none" ELSE "ValueError"
  /\ passPairs' = <<<<a, Rebuilt>>>>
  /\ opens' = opens + 1
  /\ UNCHANGED <<disk, votes, resets>>
  /\ ItemFrame

\* a.reset_name()
ItemReset(a) ==
  /\ ItemSteps < MaxVotes
  /\ a \in Players
  /\ \E r \in {reset_name(items, disk, a)} :
       /\ items' = r.items
       /\ disk' = r.disk
       /\ err' = r.err
  /\ passPairs' = <<<<a, a>>>>
  /\ resets' = resets + 1
  /\ UNCHANGED <<votes, opens>>
  /\ ItemFrame

ItemNext ==
  \/ \E a \in {1, 2}, b \in {1, 2} : ItemWins(a, b)
  \/ \E a \in {1, 2} : ItemRebuild(a)
  \/ \E a \in {1, 2} : ItemReset(a)

\* RankFileModel on its own
SpecItem == ItemInit /\ [][ItemNext]_vars

----------------------------------------------------------------------------
(* Properties of the scheduler: MainWindow on a directory tree             *)

\* load_next has unset both panes after the last round
Done == Quiet /\ rounds = MaxRounds

\* the last open_directory loaded at least two items into an idle or done scheduler
LoadedFromQuiet == session.loaded /\ session.quiet /\ session.n >= 2

\* the votes that take MaxRounds passes over the items of the last open_directory
VotesOfAllPasses == MaxRounds * (session.n \div 2)

\* C1: once open_directory has loaded two or more items into a scheduler that
\* was idle or done, the votes never take it past MaxRounds passes, and after
\* the votes of MaxRounds passes (each one pair for every two items) it is
\* done: both panes are cleared and no further pass is started.
C1_Terminates ==
  LoadedFromQuiet =>
    /\ rounds <= MaxRounds
    /\ (session.votes >= VotesOfAllPasses => Done)

\* the items of a pair a pane pair showed
Sides(pr) == {pr[1], pr[2]}

\* C2: between two shuffles no item is in two of the pairs the panes show, and
\* no pair shows one item on both sides.
C2_PairsDisjoint ==
  \A i \in DOMAIN passPairs :
    /\ passPairs[i][1] # passPairs[i][2]
    /\ \A j \in DOMAIN passPairs :
         i # j => Sides(passPairs[i]) \cap Sides(passPairs[j]) = {}

\* C3: whatever the scheduler was doing when open_directory loaded a working
\* set, every pair the panes show from then on is made of items of that
\* working set: a pane shows nothing or an item of the list.
C3_PanesShowWorkingSet ==
  \A pane \in {img_left, img_right} \ {None} : pane \in Range(fp_list)

\* reset_score has run to its end in this step
ResetDone == resets' = resets + 1 /\ err' = "none"

\* C4: when reset_score has run, every item of the working set has filename()
\* equal to its clean name, its score back at the default and its matches at
\* 0, its file on disk under the clean name, and that name decodes to the
\* default score and no matches.
C4_ResetDiscardsRating ==
  [][ResetDone =>
       \A i \in Range(fp_list') :
         /\ filename(items'[i]) = items'[i].fp_clean_name
         /\ items'[i].score = DefaultScore * SCALE
         /\ items'[i].matches = 0
         /\ items'[i].fp.name = items'[i].fp_clean_name
         /\ items'[i].fp \in DOMAIN disk'
         /\ RankFileModel(items'[i].fp, DefaultScore, DefaultK).item.score
              = DefaultScore * SCALE
         /\ RankFileModel(items'[i].fp, DefaultScore, DefaultK).item.matches = 0]_vars

----------------------------------------------------------------------------
(* Properties of RankFileModel                                             *)

\* the last call built the item Rebuilt from the name filename() gave
LastRebuilt == passPairs # <<>> /\ passPairs[1][2] = Rebuilt

\* the item the last ItemRebuild read the name of
Encoded == items[passPairs[1][1]]

\* score and matches are integers and not negative
IntegerRated(it) == it.score >= 0 /\ it.score % SCALE = 0 /\ it.matches >= 0

\* a float holds the score exactly
FloatHolds(it) == it.wide = <<>> \/ Float53(it.wide) = it.wide

\* two items agree on clean name, score and matches
SameRating(x, y) ==
  /\ x.fp_clean_name = y.fp_clean_name
  /\ x.score = y.score
  /\ x.wide = y.wide
  /\ x.matches = y.matches

\* C5 as stated: for every clean name and every integer score and matches that
\* are not negative, the item built from the name filename() gives has that
\* clean name, score and matches.
C5_RoundTripEveryInt ==
  (LastRebuilt /\ IntegerRated(Encoded)) =>
    err = "none" /\ SameRating(Encoded, items[Rebuilt])

\* C5, amended: the same for every integer score a float holds exactly (every
\* integer up to 2 ** 53), also where the clean name holds "[", "," or "] ".
C5_RoundTrip ==
  (LastRebuilt /\ IntegerRated(Encoded) /\ FloatHolds(Encoded)) =>
    err = "none" /\ SameRating(Encoded, items[Rebuilt])

\* C5: an item rated 900 with 3 matches whose clean name is "[x,y] f.jpg" has
\* been rebuilt from its name
C5_Witness ==
  /\ LastRebuilt
  /\ err = "none"
  /\ Encoded.score = 900 * SCALE
  /\ Encoded.matches = 3
  /\ Find(<<"]", " ">>, Encoded.fp_clean_name) # 0
  /\ Find(<<"[">>, Encoded.fp_clean_name) # 0
  /\ Find(<<",">>, Encoded.fp_clean_name) # 0

\* wins_over has run to its end in this step (SpecItem): Winner won over Loser
WinDone == votes' = votes + 1 /\ err' = "none"

Winner == passPairs'[1][1]

Loser == passPairs'[1][2]

\* the last call was a wins_over that ran to its end (SpecItem)
LastWon ==
  /\ passPairs # <<>>
  /\ passPairs[1][1] # passPairs[1][2]
  /\ passPairs[1][2] # Rebuilt
  /\ err = "none"

\* C6: every wins_over that runs to its end adds exactly 1 to the matches of
\* both items, leaves each file in its own directory under the name filename()
\* gives after the update and each item's path at that place (the loser's
\* file, renamed last, is there; the winner's too unless the loser took the
\* same name), and changes no field of any other item and no other file.
C6_RecordWin ==
  [][WinDone =>
       /\ \A i \in {Winner, Loser} :
            /\ items'[i].matches = items[i].matches + 1
            /\ items'[i].fp = Path(items[i].fp.dir, filename(items'[i]))
            /\ items'[i].fp \in DOMAIN disk'
            /\ items'[i].fp_clean_name = items[i].fp_clean_name
            /\ items'[i].k = items[i].k
            /\ items[i].fp \in DOMAIN disk' =>
                 items[i].fp \in {items'[Winner].fp, items'[Loser].fp}
       /\ disk'[items'[Loser].fp] = disk[items[Loser].fp]
       /\ items'[Winner].fp # items'[Loser].fp =>
            disk'[items'[Winner].fp] = disk[items[Winner].fp]
       /\ \A i \in (DOMAIN items) \ {Winner, Loser} :
            i \in DOMAIN items' /\ items'[i] = items[i]
       /\ \A q \in DOMAIN disk :
            q \notin {items[Winner].fp, items[Loser].fp,
                      items'[Winner].fp, items'[Loser].fp}
              => q \in DOMAIN disk' /\ disk'[q] = disk[q]]_vars

\* C6: a wins_over has run to its end while a third item was alive
C6_Witness ==
  /\ LastWon
  /\ Rebuilt \in DOMAIN items
  /\ items[passPairs[1][1]].matches >= 1
  /\ items[passPairs[1][2]].matches >= 1
  /\ items[passPairs[1][1]].fp \in DOMAIN disk
  /\ items[passPairs[1][1]].fp.name = filename(items[passPairs[1][1]])

\* the name with the prefix of a score and matches
Prefixed(score, matches, name) ==
  <<"[">> \o NatToStr(score) \o <<",">> \o NatToStr(matches) \o <<"]", " ">> \o name

\* both items are rated 1400 and built with k = 32
EvenMatch ==
  /\ items[Winner].score = 1400 * SCALE
  /\ items[Loser].score = 1400 * SCALE
  /\ items[Winner].k = 32
  /\ items[Loser].k = 32

\* C7: when an item rated 1400 wins over an item rated 1400, k being 32, the
\* winner's score becomes 1416 and the loser's 1384, and the files are named
\* with the prefixes [1416,m+1] and [1384,m+1].
C7_EvenMatch ==
  [][(WinDone /\ EvenMatch) =>
       /\ items'[Winner].score = 1416 * SCALE
       /\ items'[Loser].score = 1384 * SCALE
       /\ items'[Winner].fp.name =
            Prefixed(1416, items[Winner].matches + 1, items[Winner].fp_clean_name)
       /\ items'[Loser].fp.name =
            Prefixed(1384, items[Loser].matches + 1, items[Loser].fp_clean_name)
       /\ items'[Winner].fp \in DOMAIN disk'
       /\ items'[Loser].fp \in DOMAIN disk']_vars

\* C7: two items built with k = 32, rated 1416 and 1384 after one match each
C7_Witness ==
  /\ LastWon
  /\ votes = 1
  /\ items[passPairs[1][1]].score = 1416 * SCALE
  /\ items[passPairs[1][2]].score = 1384 * SCALE
  /\ items[passPairs[1][1]].k = 32
  /\ items[passPairs[1][2]].k = 32
  /\ items[passPairs[1][1]].matches = 1
  /\ items[passPairs[1][2]].matches = 1

\* the item is the unrated file sunset.jpg before its first match
UnratedSunset(it) ==
  it.fp.name = NameSunset /\ it.score = DefaultScore * SCALE /\ it.matches = 0

\* C8 as stated: sunset.jpg, unrated, k = 32, is named "[1400,1] sunset.jpg"
\* after losing its first match and "[1432,1] sunset.jpg" after winning its
\* first match against a peer rated 1400.
C8_SunsetExample ==
  [][(WinDone /\ EvenMatch) =>
       /\ UnratedSunset(items[Loser]) =>
            items'[Loser].fp.name = Prefixed(1400, 1, NameSunset)
       /\ UnratedSunset(items[Winner]) =>
            items'[Winner].fp.name = Prefixed(1432, 1, NameSunset)]_vars

\* C8, amended: against a peer rated 1400, k = 32, sunset.jpg is named
\* "[1384,1] sunset.jpg" after losing its first match and
\* "[1416,1] sunset.jpg" after winning it.
C8_SunsetElo ==
  [][(WinDone /\ EvenMatch) =>
       /\ UnratedSunset(items[Loser]) =>
            items'[Loser].fp.name = Prefixed(1384, 1, NameSunset)
       /\ UnratedSunset(items[Winner]) =>
            items'[Winner].fp.name = Prefixed(1416, 1, NameSunset)]_vars

\* C8: sunset.jpg has won its first match against a peer rated 1400, k = 32
C8_Witness ==
  /\ LastWon
  /\ votes = 1
  /\ items[passPairs[1][1]].fp_clean_name = NameSunset
  /\ items[passPairs[1][1]].fp.name = Prefixed(1416, 1, NameSunset)
  /\ items[passPairs[1][1]].fp \in DOMAIN disk
  /\ items[passPairs[1][1]].k = 32
  /\ items[passPairs[1][2]].score = 1384 * SCALE

\* what the winner gains, in score units
Gain == items'[Winner].score - items[Winner].score

\* how far the winner was rated above the loser, in score units
Lead == items[Winner].score - items[Loser].score

\* C9: a winner rated above the loser gains less than k / 2 and a winner rated
\* below the loser more than k / 2; with 400 points between them and k = 32
\* the favourite gains 32/11 and the underdog 320/11 (to the nearest score unit).
C9_ExpectationDirection ==
  [][WinDone =>
       /\ Lead > 0 => 2 * Gain < items[Winner].k * SCALE
       /\ Lead < 0 => 2 * Gain > items[Winner].k * SCALE
       /\ (Lead = 400 * SCALE /\ items[Winner].k = 32) =>
            Abs(11 * Gain - 32 * SCALE) <= 11
       /\ (Lead = -(400 * SCALE) /\ items[Winner].k = 32) =>
            Abs(11 * Gain - 320 * SCALE) <= 11]_vars

Bracketed(name) == Partition(Tail(name), <<"]", " ">>)[1]

\* the name starts with "[" and holds "] ", and what is bracketed is not two
\* integers with one "," between them
Malformed(name) ==
  /\ name # <<>>
  /\ Head(name) = "["
  /\ Find(<<"]", " ">>, name) # 0
  /\ ~(/\ Len(Split(Bracketed(name), ",")) = 2
       /\ \A i \in 1..2 : ParseInt(Split(Bracketed(name), ",")[i]).ok)

\* C11: building an item from a name with a malformed prefix does not raise:
\* the item is there, with the default score, no matches and the whole name
\* as its clean name.
C11_MalformedFallsBack ==
  ItemSteps = 0 =>
    \A p \in DOMAIN disk :
      Malformed(p.name) =>
        /\ disk[p] \in DOMAIN items
        /\ items[disk[p]].score = DefaultScore * SCALE
        /\ items[disk[p]].matches = 0
        /\ items[disk[p]].fp_clean_name = p.name


----------------------------------------------------------------------------
(* Further properties of the scheduler                                     *)

\* C12: once the scheduler is done, a vote returns with the scheduler still
\* done: the panes stay empty, no pair is added, and no item and no file
\* changes; and nothing but open_directory takes the scheduler out of done.
C12_DoneIsTerminal ==
  [][Done =>
       /\ votes' = votes + 1 =>
            /\ Done'
            /\ err' = "none"
            /\ passPairs' = passPairs
            /\ items' = items
            /\ disk' = disk
            /\ fp_list' = fp_list
       /\ ~Done' => opens' = opens + 1]_vars

\* C12: a vote has been taken after the votes of all passes over two or more
\* items, and the scheduler is done
C12_Witness ==
  /\ Done
  /\ LoadedFromQuiet
  /\ session.votes > VotesOfAllPasses
  /\ \E i \in Range(fp_list) : items[i].matches = MaxRounds


\* the last open_directory found no image
NoImagesFound == session.loaded /\ session.n = 0

\* C13: after open_directory on a directory without an image, whatever the
\* scheduler was doing before, there is no working set in play: the list is
\* empty and, until the next open_directory, both panes are empty, so that no
\* vote reaches a file.
C13_NoImagesNoPair ==
  NoImagesFound => fp_list = <<>> /\ img_left = None /\ img_right = None


\* the items the pairs since the last shuffle are made of
Paired(pp) == UNION {Sides(pp[i]) : i \in DOMAIN pp}

\* a vote ends a pass: load_next shuffles again, or finds no round left
PassOver ==
  /\ votes' = votes + 1
  /\ rounds >= 1
  /\ rounds' = rounds + 1 \/ (~Done /\ Done')

\* C14: in a pass over the N items open_directory loaded into an idle or done
\* scheduler the panes show floor(N/2) pairs: never more while the pass runs,
\* exactly that many when a vote ends it, and for odd N the last item of the
\* shuffled list is in none of them.
C14_PairsPerPass ==
  [][/\ LoadedFromQuiet' =>
          /\ Len(passPairs') <= session'.n \div 2
          /\ session'.n % 2 = 1 /\ rounds' >= 1 =>
                fp_list'[session'.n] \notin Paired(passPairs')
     /\ LoadedFromQuiet /\ PassOver => Len(passPairs) = session.n \div 2]_vars


\* C15: when the scheduler is done with the N >= 2 items open_directory
\* loaded into an idle or done scheduler, whatever the shuffles were, every
\* item of the list has been in at least one call of wins_over.
C15_EveryItemCompared ==
  LoadedFromQuiet /\ Done => Range(fp_list) \subseteq session.compared


\* C16: whatever open_directory, votes and reset_score came before, also an
\* open_directory in the middle of a pass, the path every item in a pane
\* stores names a file that is on the disk, and no handler has failed on a
\* path that is gone.
C16_PanePathsOnDisk ==
  /\ \A pane \in {img_left, img_right} \ {None} : items[pane].fp \in DOMAIN disk
  /\ err # "FileNotFoundError"


\* wins_over was called in this step (SpecItem), whatever its end
WinCalled == votes' = votes + 1

\* a rename of wins_over raised: the file of the path was gone
RenameFailed == WinCalled /\ err' = "FileNotFoundError"

\* C17: a wins_over in which a rename fails leaves both items as they were
\* (rating, matches and path), and no wins_over ends with an item whose rating
\* or matches changed while its path is not that of a file on the disk named
\* filename() of the new rating.
C17_RenameFailureAtomic ==
  [][WinCalled =>
       \A i \in {Winner, Loser} :
         /\ RenameFailed => items'[i] = items[i]
         /\ (items'[i].score # items[i].score
               \/ items'[i].matches # items[i].matches) =>
              /\ items'[i].fp \in DOMAIN disk'
              /\ items'[i].fp.name = filename(items'[i])]_vars


\* what the loser lost, in score units
Loss == items[Loser].score - items'[Loser].score

\* C18: in every wins_over that runs to its end, also between items built with
\* different k, the winner gains its own k times (1 - E_a) and the loser
\* loses its own k times E_b.
C18_OwnKFactor ==
  [][WinDone =>
       /\ Gain = KTimes(items[Winner].k,
                        ONE - Expectation(items[Winner].score - items[Loser].score))
       /\ Loss = KTimes(items[Loser].k,
                        Expectation(items[Loser].score - items[Winner].score))]_vars


\* the panes hold a pair load_next took from the shuffled list: two
\* neighbours, the first at an odd place
PairOfShuffle ==
  \E i \in 1..(Len(fp_list) - 1) :
    i % 2 = 1 /\ fp_list[i] = img_left /\ fp_list[i + 1] = img_right

\* both panes are empty, or they hold two different items
BothOrNone ==
  /\ (img_left = None) <=> (img_right = None)
  /\ img_left # None => img_left # img_right

\* an open_directory or an arrow_press has run to its end in this step
Completed == (opens' = opens + 1 \/ votes' = votes + 1) /\ err' = "none"

\* C19: whatever the handlers did, an arrow_press finds both panes empty or
\* both holding an item, two different ones, and so never calls wins_over on
\* an empty pane; after an open_directory or a vote that ran to its end on a
\* list loaded into an idle or done scheduler (of any size, 0 and 1 too) the
\* two items are neighbours of the current shuffle.
C19_PanesPaired ==
  [][/\ BothOrNone'
     /\ err' # "AttributeError"
     /\ (Completed /\ LoadedFromQuiet' /\ img_left' # None) => PairOfShuffle']_vars

\* C20: the items of the list, built from files of pairwise different paths,
\* keep pairwise different paths through every vote and reset_score: no
\* rename puts one item's file under the path of another's.
C20_PathsDistinct ==
  \A i \in DOMAIN fp_list : \A j \in DOMAIN fp_list :
    i # j => items[fp_list[i]].fp # items[fp_list[j]].fp

====
